---- MODULE Spec2Model ----
(***************************************************************************)
(* A model of the project-update action: getInputs() builds the `fields`  *)
(* object from the two CSV inputs, run() locates the project, fetches the *)
(* field schema and, for every entry of `fields`, finds the field,        *)
(* resolves the value against the field's settings and issues the update  *)
(* mutation.                                                              *)
(*                                                                        *)
(* A JavaScript string is modelled as a sequence of one-character         *)
(* strings, so that split, slice, startsWith, toLowerCase and parseInt    *)
(* are computed character by character.                                   *)
(***************************************************************************)
EXTENDS Integers, Sequences, FiniteSets, TLC

VARIABLES
    pc,             \* position of run()
    fieldNames,     \* core.getInput('field-names')
    fieldsValue,    \* core.getInput('field-values')
    fields,         \* ret.fields: [defined, entries], entries in Object.entries order
    projectFields,  \* result of projectFieldsGet
    i,              \* position of the for..of loop in Object.entries(fields)
    field,          \* index in projectFields of the field found for the current entry, 0 = undefined
    mutations,      \* the projectFieldUpdate calls issued so far, in order
    outcomes,       \* the per-entry log lines written so far, in order
    thrown,         \* what made run() reject, "" while it has not
    fetches         \* the number of projectFieldsGet calls issued so far

vars == <<pc, fieldNames, fieldsValue, fields, projectFields, i, field, mutations, outcomes, thrown, fetches>>

\* Bound: the longest list of names (and of values) the inputs are drawn from.
MaxPairs == 3

\* Bound: the largest index written in a bracketed value, "[MaxIndex]".
MaxIndex == 3

--------------------------------------------------------------------------
(* JavaScript string and array primitives *)

\* String.prototype.toLowerCase on one character of the alphabet used here.
LowerChar(c) ==
    CASE c = "A" -> "a"
      [] c = "I" -> "i"
      [] c = "O" -> "o"
      [] c = "Q" -> "q"
      [] c = "S" -> "s"
      [] c = "T" -> "t"
      [] c = "W" -> "w"
      [] OTHER -> c

\* String.prototype.toLowerCase
toLowerCase(s) == [k \in 1..Len(s) |-> LowerChar(s[k])]

\* String.prototype.startsWith / endsWith with a one-character argument
startsWith(s, c) == Len(s) >= 1 /\ s[1] = c

endsWith(s, c) == Len(s) >= 1 /\ s[Len(s)] = c

\* value.slice(1, -1): drops the first and the last character
slice1(s) == IF Len(s) >= 2 THEN SubSeq(s, 2, Len(s) - 1) ELSE <<>>

\* String.prototype.split(','): the pieces between the commas; "" gives [""].
RECURSIVE SplitFrom(_, _, _)
SplitFrom(s, k, cur) ==
    IF k > Len(s) THEN <<cur>>
    ELSE IF s[k] = "," THEN <<cur>> \o SplitFrom(s, k + 1, <<>>)
    ELSE SplitFrom(s, k + 1, Append(cur, s[k]))

split(s) == SplitFrom(s, 1, <<>>)

IsDigit(c) == c \in {"0", "1", "2", "3", "4", "5", "6", "7", "8", "9"}

DigitVal(c) ==
    CASE c = "0" -> 0 [] c = "1" -> 1 [] c = "2" -> 2 [] c = "3" -> 3 [] c = "4" -> 4
      [] c = "5" -> 5 [] c = "6" -> 6 [] c = "7" -> 7 [] c = "8" -> 8 [] c = "9" -> 9

\* The value of the longest prefix of digits of s from position k on, with the
\* number of digits read.
RECURSIVE Digits(_, _, _, _)
Digits(s, k, acc, n) ==
    IF k <= Len(s) /\ IsDigit(s[k])
    THEN Digits(s, k + 1, acc * 10 + DigitVal(s[k]), n + 1)
    ELSE [val |-> acc, read |-> n]

RECURSIVE SkipSpaces(_, _)
SkipSpaces(s, k) == IF k <= Len(s) /\ s[k] = " " THEN SkipSpaces(s, k + 1) ELSE k

\* parseInt(s): leading white space is skipped, then an optional sign, then the
\* longest prefix of decimal digits; what follows the digits is ignored. NaN when
\* there is no digit. (The alphabet has no "x", so no hexadecimal prefix.)
parseInt(s) ==
    LET k0   == SkipSpaces(s, 1)
        neg  == k0 <= Len(s) /\ s[k0] = "-"
        k1   == IF k0 <= Len(s) /\ s[k0] \in {"-", "+"} THEN k0 + 1 ELSE k0
        d    == Digits(s, k1, 0, 0)
    IN  IF d.read = 0 THEN [nan |-> TRUE, n |-> 0]
        ELSE [nan |-> FALSE, n |-> IF neg THEN 0 - d.val ELSE d.val]

\* arr[index] for a number index: the element, or undefined out of range.
\* Arrays are 0-based in the source and 1-based here.
InRange(arr, index) == index >= 0 /\ index < Len(arr)

\* Array.prototype.find, given the callback's result on every element in
\* order: the 1-based position of the first element it accepts, 0 when there is
\* none (undefined).
FirstIndex(accepts) ==
    IF \E k \in 1..Len(accepts) : accepts[k]
    THEN CHOOSE k \in 1..Len(accepts) : accepts[k] /\ \A j \in 1..(k - 1) : ~accepts[j]
    ELSE 0

--------------------------------------------------------------------------
(* getInputs: the `fields` object *)

\* A property key that is a canonical array index ("0", "1", "12", not "01"):
\* an object lists such keys first, in ascending numeric order.
IsArrayIndex(k) ==
    /\ Len(k) >= 1
    /\ \A j \in 1..Len(k) : IsDigit(k[j])
    /\ (Len(k) = 1 \/ k[1] # "0")

\* obj[k] = v on an object given as its entries in Object.entries order: an
\* existing key keeps its place and takes the new value; a new array-index key
\* goes among the index keys in ascending order; any other new key goes last.
ObjSet(obj, k, v) ==
    LET at == FirstIndex([e \in 1..Len(obj) |-> obj[e].name = k])
        before == FirstIndex([e \in 1..Len(obj) |->
                      \/ ~IsArrayIndex(obj[e].name)
                      \/ Digits(obj[e].name, 1, 0, 0).val > Digits(k, 1, 0, 0).val])
    IN  IF at # 0 THEN [obj EXCEPT ![at].value = v]
        ELSE IF IsArrayIndex(k) /\ before # 0
             THEN SubSeq(obj, 1, before - 1) \o <<[name |-> k, value |-> v]>>
                    \o SubSeq(obj, before, Len(obj))
        ELSE Append(obj, [name |-> k, value |-> v])

\* fieldsValueArr[i] is truthy: the position exists and holds a non-empty string.
\* (Positions are 0-based in the source and 1-based here.)
HasValueAt(fieldsValueArr, k) == k <= Len(fieldsValueArr) /\ fieldsValueArr[k] # <<>>

\* fieldNames.split(',').reduce((obj, f, i) => { if (fieldsValueArr[i]) obj[f] = fieldsValueArr[i]; return obj }, {})
RECURSIVE Reduce(_, _, _, _)
Reduce(names, fieldsValueArr, k, obj) ==
    IF k > Len(names) THEN obj
    ELSE Reduce(names, fieldsValueArr, k + 1,
                IF HasValueAt(fieldsValueArr, k)
                THEN ObjSet(obj, names[k], fieldsValueArr[k])
                ELSE obj)

\* ret.fields as getInputs leaves it: undefined when field-names is empty.
GetFields(names, values) ==
    IF names # <<>>
    THEN [defined |-> TRUE, entries |-> Reduce(split(names), split(values), 1, <<>>)]
    ELSE [defined |-> FALSE, entries |-> <<>>]

--------------------------------------------------------------------------
(* The field schema the API returns *)

Undefined == [has |-> FALSE, list |-> <<>>]

Array(l) == [has |-> TRUE, list |-> l]

\* JSON.parse(node.settings) of a field without settings: null.
NoSettings == [null |-> TRUE, iterations |-> Undefined, completed_iterations |-> Undefined, options |-> Undefined]

\* settings with neither configuration.iterations nor options
OtherSettings == [null |-> FALSE, iterations |-> Undefined, completed_iterations |-> Undefined, options |-> Undefined]

IterationSettings(its, completed) ==
    [null |-> FALSE, iterations |-> Array(its), completed_iterations |-> completed, options |-> Undefined]

OptionSettings(opts) ==
    [null |-> FALSE, iterations |-> Undefined, completed_iterations |-> Undefined, options |-> Array(opts)]

Options == <<[id |-> <<"O", "1">>, name |-> <<"T", "o">>],
             [id |-> <<"O", "2">>, name |-> <<"[", "w", "]">>],
             [id |-> <<"O", "3">>, name |-> <<"t", "o">>]>>

Iterations == <<[id |-> <<"I", "1">>, title |-> <<"Q", "1">>],
                [id |-> <<"I", "2">>, title |-> <<"[", "w", "]">>]>>

CompletedIterations == <<[id |-> <<"I", "8">>, title |-> <<"q", "1">>],
                         [id |-> <<"I", "9">>, title |-> <<"Q", "0">>]>>

\* Two answers of projectFieldsGet. In the first every iteration field carries
\* both lists, and two fields share the name "T" and two the name "s" up to case.
\* In the second the iteration field's settings have no completed_iterations.
Schema1 == <<[id |-> <<"F", "1">>, name |-> <<"S">>, settings |-> OptionSettings(Options)],
             [id |-> <<"F", "2">>, name |-> <<"I">>, settings |-> IterationSettings(Iterations, Array(CompletedIterations))],
             [id |-> <<"F", "3">>, name |-> <<"T">>, settings |-> NoSettings],
             [id |-> <<"F", "4">>, name |-> <<"s">>, settings |-> NoSettings],
             [id |-> <<"F", "5">>, name |-> <<"T">>, settings |-> OtherSettings],
             [id |-> <<"F", "6">>, name |-> <<"1">>, settings |-> NoSettings]>>

Schema2 == <<[id |-> <<"F", "1">>, name |-> <<"S">>, settings |-> OptionSettings(Options)],
             [id |-> <<"F", "2">>, name |-> <<"I">>, settings |-> IterationSettings(Iterations, Undefined)],
             [id |-> <<"F", "6">>, name |-> <<"1">>, settings |-> NoSettings]>>

Schemas == {Schema1, Schema2}

--------------------------------------------------------------------------
(* run: finding the field and resolving the value *)

\* Find, comparing the names without regard to case.
Find_ci(fs, name) == FirstIndex([k \in 1..Len(fs) |-> toLowerCase(name) = toLowerCase(fs[k].name)])

\* projectFields.find((field) => name === field.name): the position of the first
\* field whose name is exactly `name`, 0 when find returns undefined.
Find(fs, name) == FirstIndex([k \in 1..Len(fs) |-> name = fs[k].name])

\* value.startsWith('[') && value.endsWith(']')
Bracketed(value) == startsWith(value, "[") /\ endsWith(value, "]")

\* AtIndex, taking the index as 1-based.
AtIndex_oneBased(list, value) ==
    LET index == parseInt(slice1(value))
    IN  IF ~index.nan /\ index.n >= 1 /\ index.n <= Len(list) THEN index.n ELSE 0

\* The element a bracketed value selects in `list`:
\*   const index = parseInt(value.slice(1, -1)); if (!isNaN(index)) x = list[index]
\* as a 1-based position, 0 when x stays undefined.
AtIndex(list, value) ==
    LET index == parseInt(slice1(value))
    IN  IF ~index.nan /\ InRange(list, index.n) THEN index.n + 1 ELSE 0

\* list.find(x => x.<label>.toLowerCase() === value.toLowerCase()) for iterations
ByTitle(list, value) == FirstIndex([k \in 1..Len(list) |-> toLowerCase(list[k].title) = toLowerCase(value)])

\* the same for options
ByName(list, value) == FirstIndex([k \in 1..Len(list) |-> toLowerCase(list[k].name) = toLowerCase(value)])

\* The three ways the resolution of a value ends: an element was found and
\* _value is its id; nothing was found and _value is still the raw value; or the
\* code threw.
Hit(id) == [threw |-> FALSE, hit |-> TRUE, value |-> id]

Miss(value) == [threw |-> FALSE, hit |-> FALSE, value |-> value]

Threw == [threw |-> TRUE, hit |-> FALSE, value |-> <<>>]

\* The iteration branch. iterations.find(..) || completed_iterations.find(..)
\* reads completed_iterations only when the first find returns undefined, and
\* throws a TypeError when completed_iterations is undefined then.
ResolveIteration(settings, value) ==
    LET its == settings.iterations.list
        done == settings.completed_iterations
    IN  IF Bracketed(value)
        THEN IF AtIndex(its, value) # 0 THEN Hit(its[AtIndex(its, value)].id) ELSE Miss(value)
        ELSE IF ByTitle(its, value) # 0 THEN Hit(its[ByTitle(its, value)].id)
        ELSE IF ~done.has THEN Threw
        ELSE IF ByTitle(done.list, value) # 0 THEN Hit(done.list[ByTitle(done.list, value)].id)
        ELSE Miss(value)

\* The option branch.
ResolveOption(settings, value) ==
    LET opts == settings.options.list
    IN  IF Bracketed(value)
        THEN IF AtIndex(opts, value) # 0 THEN Hit(opts[AtIndex(opts, value)].id) ELSE Miss(value)
        ELSE IF ByName(opts, value) # 0 THEN Hit(opts[ByName(opts, value)].id)
        ELSE Miss(value)

\* Resolve, reading a bracketed value as an index before looking at the
\* settings: a field without settings is sent the text between the brackets.
Resolve_indexFirst(f, value) ==
    IF f.settings.null THEN Miss(IF Bracketed(value) THEN slice1(value) ELSE value)
    ELSE IF f.settings.iterations.has THEN ResolveIteration(f.settings, value)
    ELSE IF f.settings.options.has THEN ResolveOption(f.settings, value)
    ELSE Miss(value)

\* let _value = value; if (field.settings) { if (..iterations) .. else if (..options) .. }
Resolve(f, value) ==
    IF f.settings.null THEN Miss(value)
    ELSE IF f.settings.iterations.has THEN ResolveIteration(f.settings, value)
    ELSE IF f.settings.options.has THEN ResolveOption(f.settings, value)
    ELSE Miss(value)

--------------------------------------------------------------------------
(* The inputs *)

\* The sequences over S of length at most n
SeqsUpTo(S, n) == UNION {[1..k -> S] : k \in 0..n}

\* The CSV text of a list of strings
RECURSIVE Join(_)
Join(l) ==
    IF l = <<>> THEN <<>>
    ELSE IF Len(l) = 1 THEN l[1]
    ELSE l[1] \o <<",">> \o Join(Tail(l))

\* The decimal text of a natural number
RECURSIVE NatText(_)
NatText(n) ==
    LET d == <<"0", "1", "2", "3", "4", "5", "6", "7", "8", "9">>
    IN  IF n < 10 THEN <<d[n + 1]>> ELSE NatText(n \div 10) \o <<d[(n % 10) + 1]>>

\* The value "[n]" for an integer n
BracketInt(n) ==
    <<"[">> \o (IF n < 0 THEN <<"-">> \o NatText(0 - n) ELSE NatText(n)) \o <<"]">>

\* Names and values of the batches: a field with iteration settings, a field
\* whose name is an array index, a name no schema has; an empty value, an
\* iteration title, a title no iteration has.
BatchNames == {<<"I">>, <<"1">>, <<"b">>}

BatchValues == {<<>>, <<"Q", "1">>, <<"z", "z">>}

\* Names and values of the single pairs
PairNames == {<<>>, <<"S">>, <<"s">>, <<"I">>, <<"i">>, <<"T">>, <<"t">>, <<"b">>}

PairValues ==
    {BracketInt(n) : n \in -1..MaxIndex}
      \cup {<<"[", "w", "]">>, <<"[", "W", "]">>, <<"[", "1", "w", "]">>, <<"[", "]">>, <<"[">>,
            <<"T", "o">>, <<"T", "O">>, <<"t", "o">>,
            <<"Q", "1">>, <<"q", "1">>, <<"q", "0">>, <<"z", "z">>, <<>>}

--------------------------------------------------------------------------
(* The state machine of run() *)

Entries == fields.entries

Start(names, values) ==
    /\ pc = "getInputs"
    /\ fieldNames = names
    /\ fieldsValue = values
    /\ fields = [defined |-> FALSE, entries |-> <<>>]
    /\ projectFields = <<>>
    /\ i = 0
    /\ field = 0
    /\ mutations = <<>>
    /\ outcomes = <<>>
    /\ thrown = ""
    /\ fetches = 0

\* Batches: up to MaxPairs names and up to MaxPairs values, as CSV text.
Init ==
    \E ns \in SeqsUpTo(BatchNames, MaxPairs), vs \in SeqsUpTo(BatchValues, MaxPairs) :
        Start(Join(ns), Join(vs))

\* One name and one value.
InitResolve == \E n \in PairNames, v \in PairValues : Start(n, v)

\* const { ..., fields } = getInputs()
GetInputs ==
    /\ pc = "getInputs"
    /\ fields' = GetFields(fieldNames, fieldsValue)
    /\ pc' = "projectGet"
    /\ UNCHANGED <<fieldNames, fieldsValue, projectFields, i, field, mutations, outcomes, thrown, fetches>>

\* projectGet returns a project with an id. Without `fields` the run goes
\* straight to the final summary; otherwise it calls projectFieldsGet.
ProjectFound ==
    /\ pc = "projectGet"
    /\ pc' = IF fields.defined THEN "projectFieldsGet" ELSE "done"
    /\ fetches' = IF fields.defined THEN fetches + 1 ELSE fetches
    /\ UNCHANGED <<fieldNames, fieldsValue, fields, projectFields, i, field, mutations, outcomes, thrown>>

\* projectGet returns no project: core.setFailed, return.
ProjectNotFound ==
    /\ pc = "projectGet"
    /\ pc' = "failed"
    /\ UNCHANGED <<fieldNames, fieldsValue, fields, projectFields, i, field, mutations, outcomes, thrown, fetches>>

\* octokit.graphql rejects in projectGet: nothing catches it.
ProjectGetThrows ==
    /\ pc = "projectGet"
    /\ pc' = "threw"
    /\ thrown' = "projectGet"
    /\ UNCHANGED <<fieldNames, fieldsValue, fields, projectFields, i, field, mutations, outcomes, fetches>>

\* projectFieldsGet returns the schema; the loop starts at the first entry.
ProjectFieldsGet ==
    /\ pc = "projectFieldsGet"
    /\ \E schema \in Schemas : projectFields' = schema
    /\ i' = 1
    /\ pc' = "loop"
    /\ UNCHANGED <<fieldNames, fieldsValue, fields, field, mutations, outcomes, thrown, fetches>>

\* octokit.graphql rejects in projectFieldsGet: nothing catches it.
ProjectFieldsGetThrows ==
    /\ pc = "projectFieldsGet"
    /\ pc' = "threw"
    /\ thrown' = "projectFieldsGet"
    /\ UNCHANGED <<fieldNames, fieldsValue, fields, projectFields, i, field, mutations, outcomes, fetches>>

\* if (!field) { core.info(`Failed to find field ...`); continue }
FieldNotFound ==
    /\ pc = "loop"
    /\ i <= Len(Entries)
    /\ Find(projectFields, Entries[i].name) = 0
    /\ field' = 0
    /\ outcomes' = Append(outcomes, [kind |-> "FieldNotFound", name |-> Entries[i].name,
                                     raw |-> Entries[i].value, fieldId |-> <<>>, value |-> <<>>])
    /\ i' = i + 1
    /\ UNCHANGED <<pc, fieldNames, fieldsValue, fields, projectFields, mutations, thrown, fetches>>

\* The field is found and resolving the value throws: the TypeError leaves the
\* loop and run().
ResolveThrows ==
    /\ pc = "loop"
    /\ i <= Len(Entries)
    /\ Find(projectFields, Entries[i].name) # 0
    /\ field' = Find(projectFields, Entries[i].name)
    /\ Resolve(projectFields[field'], Entries[i].value).threw
    /\ pc' = "threw"
    /\ thrown' = "resolve"
    /\ UNCHANGED <<fieldNames, fieldsValue, fields, projectFields, i, mutations, outcomes, fetches>>

\* IssueUpdate, skipping the update when a field with settings resolves to
\* nothing.
IssueUpdate_skipOnMiss ==
    /\ pc = "loop"
    /\ i <= Len(Entries)
    /\ Find(projectFields, Entries[i].name) # 0
    /\ field' = Find(projectFields, Entries[i].name)
    /\ ~Resolve(projectFields[field'], Entries[i].value).threw
    /\ IF ~projectFields[field'].settings.null /\ ~Resolve(projectFields[field'], Entries[i].value).hit
       THEN /\ i' = i + 1
            /\ UNCHANGED <<pc, mutations>>
       ELSE /\ mutations' = Append(mutations, [fieldId |-> projectFields[field'].id,
                                               value |-> Resolve(projectFields[field'], Entries[i].value).value])
            /\ pc' = "projectFieldUpdate"
            /\ i' = i
    /\ UNCHANGED <<fieldNames, fieldsValue, fields, projectFields, outcomes, thrown, fetches>>

\* The field is found, the value resolved, and projectFieldUpdate is called with
\* _value: the mutation is in flight.
IssueUpdate ==
    /\ pc = "loop"
    /\ i <= Len(Entries)
    /\ Find(projectFields, Entries[i].name) # 0
    /\ field' = Find(projectFields, Entries[i].name)
    /\ ~Resolve(projectFields[field'], Entries[i].value).threw
    /\ mutations' = Append(mutations, [fieldId |-> projectFields[field'].id,
                                       value |-> Resolve(projectFields[field'], Entries[i].value).value])
    /\ pc' = "projectFieldUpdate"
    /\ UNCHANGED <<fieldNames, fieldsValue, fields, projectFields, i, outcomes, thrown, fetches>>

Outcome(kind) ==
    [kind |-> kind, name |-> Entries[i].name, raw |-> Entries[i].value,
     fieldId |-> mutations[Len(mutations)].fieldId, value |-> mutations[Len(mutations)].value]

\* The mutation returns: core.info(`Successfully updated field ...`)
UpdateReturns ==
    /\ pc = "projectFieldUpdate"
    /\ outcomes' = Append(outcomes, Outcome("Resolved"))
    /\ i' = i + 1
    /\ pc' = "loop"
    /\ UNCHANGED <<fieldNames, fieldsValue, fields, projectFields, field, mutations, thrown, fetches>>

\* UpdateThrows without the try/catch around projectFieldUpdate: the rejection
\* leaves the loop and run().
UpdateThrows_uncaught ==
    /\ pc = "projectFieldUpdate"
    /\ pc' = "threw"
    /\ thrown' = "projectFieldUpdate"
    /\ UNCHANGED <<fieldNames, fieldsValue, fields, projectFields, i, field, mutations, outcomes, fetches>>

\* UpdateThrows, calling projectFieldUpdate a second time for the same entry
\* when the first call rejects.
UpdateThrows_retry ==
    /\ pc = "projectFieldUpdate"
    /\ IF Cardinality({m \in 1..Len(mutations) : mutations[m].fieldId = mutations[Len(mutations)].fieldId}) = 1
       THEN /\ mutations' = Append(mutations, mutations[Len(mutations)])
            /\ UNCHANGED <<pc, i, outcomes>>
       ELSE /\ outcomes' = Append(outcomes, Outcome("UpdateFailed"))
            /\ i' = i + 1
            /\ pc' = "loop"
            /\ UNCHANGED mutations
    /\ UNCHANGED <<fieldNames, fieldsValue, fields, projectFields, field, thrown, fetches>>

\* The mutation rejects: catch (err) { core.info(`Failed to update field ...`) }
UpdateThrows ==
    /\ pc = "projectFieldUpdate"
    /\ outcomes' = Append(outcomes, Outcome("UpdateFailed"))
    /\ i' = i + 1
    /\ pc' = "loop"
    /\ UNCHANGED <<fieldNames, fieldsValue, fields, projectFields, field, mutations, thrown, fetches>>

\* The loop is over: core.endGroup and the final summary line.
Summary ==
    /\ pc = "loop"
    /\ i > Len(Entries)
    /\ pc' = "done"
    /\ UNCHANGED <<fieldNames, fieldsValue, fields, projectFields, i, field, mutations, outcomes, thrown, fetches>>

Next ==
    \/ GetInputs
    \/ ProjectFound
    \/ ProjectNotFound
    \/ ProjectGetThrows
    \/ ProjectFieldsGet
    \/ ProjectFieldsGetThrows
    \/ FieldNotFound
    \/ ResolveThrows
    \/ IssueUpdate
    \/ UpdateReturns
    \/ UpdateThrows
    \/ Summary

Spec == Init /\ [][Next]_vars

SpecResolve == InitResolve /\ [][Next]_vars

--------------------------------------------------------------------------
(* Vocabulary of the properties *)

\* The entry the loop is at, and the mutation issued last
Cur == Entries[i]

Sent == mutations[Len(mutations)]

\* The schema has been fetched: run() is in or past the loop
Fetched == projectFields # <<>>

EqualsIgnoringCase(a, b) == toLowerCase(a) = toLowerCase(b)

\* The bracket-index syntax [<integer>]: "[", an optional "-", one or more
\* digits, "]"
IsIndexSyntax(v) ==
    /\ Len(v) >= 3
    /\ v[1] = "["
    /\ v[Len(v)] = "]"
    /\ LET from == IF v[2] = "-" THEN 3 ELSE 2
       IN  /\ from <= Len(v) - 1
           /\ \A k \in from..(Len(v) - 1) : IsDigit(v[k])

\* The (name, value) pairs the two CSV inputs give by position: one pair for
\* every position that has a name and a non-empty value, in input order
RequestPairs ==
    LET ns == split(fieldNames)
        vs == split(fieldsValue)
        Valued(k) == k <= Len(vs) /\ vs[k] # <<>>
    IN  SelectSeq([k \in 1..Len(ns) |->
                      [name |-> ns[k], value |-> IF Valued(k) THEN vs[k] ELSE <<>>]],
                  LAMBDA pr : pr.value # <<>>)

HasIterations(f) == ~f.settings.null /\ f.settings.iterations.has

HasOptions(f) == ~f.settings.null /\ ~f.settings.iterations.has /\ f.settings.options.has

\* The positions of `list` whose label equals v ignoring case
TitleMatches(list, v) == {k \in 1..Len(list) : EqualsIgnoringCase(list[k].title, v)}

NameMatches(list, v) == {k \in 1..Len(list) : EqualsIgnoringCase(list[k].name, v)}

\* The ids of the iterations of a field, active and completed
IterationIds(f) ==
    {f.settings.iterations.list[k].id : k \in 1..Len(f.settings.iterations.list)}
      \cup {f.settings.completed_iterations.list[k].id :
               k \in 1..Len(f.settings.completed_iterations.list)}

\* The value v resolves to no iteration of field f: a bracketed value that is
\* no index into the active list, or a title that matches neither list
ResolvesToNoIteration(f, v) ==
    IF startsWith(v, "[") /\ endsWith(v, "]")
    THEN \A n \in 0..(Len(f.settings.iterations.list) - 1) : parseInt(slice1(v)) # [nan |-> FALSE, n |-> n]
    ELSE /\ TitleMatches(f.settings.iterations.list, v) = {}
         /\ TitleMatches(f.settings.completed_iterations.list, v) = {}

\* The number of outcomes that report an issued mutation
RECURSIVE Reported(_)
Reported(os) ==
    IF os = <<>> THEN 0
    ELSE (IF os[1].kind = "FieldNotFound" THEN 0 ELSE 1) + Reported(Tail(os))

--------------------------------------------------------------------------
(* C1 *)

\* C1 as claimed: field matching is case-insensitive. Whenever a field was found
\* for the current entry it is the first field, in fetch order, whose name equals
\* the requested name ignoring case, and FieldNotFound is reported only for a
\* name that equals no field's name ignoring case.
C1_CaseInsensitiveMatch ==
    /\ (pc = "projectFieldUpdate" \/ thrown = "resolve") =>
          /\ field # 0
          /\ EqualsIgnoringCase(projectFields[field].name, Cur.name)
          /\ \A j \in 1..(field - 1) : ~EqualsIgnoringCase(projectFields[j].name, Cur.name)
    /\ \A k \in 1..Len(outcomes) :
          outcomes[k].kind = "FieldNotFound" =>
             \A j \in 1..Len(projectFields) : ~EqualsIgnoringCase(projectFields[j].name, outcomes[k].name)

\* C1, amended: field matching is by exact equality of the names. Whenever a
\* field was found for the current entry it is the first field, in fetch order,
\* whose name is exactly the requested name; FieldNotFound is reported exactly
\* for the names that are the name of no field; and an entry with an exactly
\* equal field name is never reported FieldNotFound.
C1_ExactMatch ==
    /\ (pc = "projectFieldUpdate" \/ thrown = "resolve") =>
          /\ field # 0
          /\ projectFields[field].name = Cur.name
          /\ \A j \in 1..(field - 1) : projectFields[j].name # Cur.name
    /\ \A k \in 1..Len(outcomes) :
          outcomes[k].kind = "FieldNotFound" <=>
             \A j \in 1..Len(projectFields) : projectFields[j].name # outcomes[k].name

\* A requested name that differs from a field's name only by case has been
\* reported FieldNotFound.
C1_Witness ==
    \E k \in 1..Len(outcomes) :
        /\ outcomes[k].kind = "FieldNotFound"
        /\ \E j \in 1..Len(projectFields) : EqualsIgnoringCase(projectFields[j].name, outcomes[k].name)

--------------------------------------------------------------------------
(* C2 *)

\* C2 as claimed: when the run is done, there is exactly one outcome per input
\* pair, and the outcomes are in the order of the input pairs (each outcome
\* carries the name and the raw value of the pair at its position).
C2_OneOutcomePerPairInOrder ==
    (pc = "done" /\ fields.defined) =>
        /\ Len(outcomes) = Len(RequestPairs)
        /\ \A k \in 1..Len(outcomes) :
              /\ outcomes[k].name = RequestPairs[k].name
              /\ outcomes[k].raw = RequestPairs[k].value

--------------------------------------------------------------------------
(* C3 *)

--------------------------------------------------------------------------
(* C4 *)

\* C4 as claimed: no mutation whose value is not an iteration id is ever issued
\* for a field with iteration settings (a value that resolves to no iteration
\* is skipped, the raw string is never sent).
C4_MissSkipsUpdate ==
    (pc = "projectFieldUpdate" /\ HasIterations(projectFields[field])) =>
        Sent.value \in IterationIds(projectFields[field])

\* C4, amended: a resolution miss does not skip the update. For every entry the
\* loop has passed or is awaiting, whose field has iteration settings and whose
\* raw value resolves to no iteration, the update mutation was issued for that
\* field with the raw string as its value.
C4_MissSendsRaw ==
    \A k \in 1..Len(Entries) :
        \A j \in 1..Len(projectFields) :
            ( /\ k < i \/ (k = i /\ pc = "projectFieldUpdate")
              /\ projectFields[j].name = Entries[k].name
              /\ \A h \in 1..(j - 1) : projectFields[h].name # Entries[k].name
              /\ HasIterations(projectFields[j])
              /\ ResolvesToNoIteration(projectFields[j], Entries[k].value) )
            => \E m \in 1..Len(mutations) :
                  mutations[m] = [fieldId |-> projectFields[j].id, value |-> Entries[k].value]

\* The mutation in flight is for an iteration field and carries a raw title that
\* matches no iteration.
C4_Witness ==
    /\ pc = "projectFieldUpdate"
    /\ HasIterations(projectFields[field])
    /\ Cur.value = <<"z", "z">>
    /\ Sent.value = <<"z", "z">>

--------------------------------------------------------------------------
(* C5 *)

\* C5 as claimed: once the schema has been fetched, run() does not throw.
C5_NoAbortAfterFetch == Fetched => pc # "threw"

--------------------------------------------------------------------------
(* C6 *)

\* C6 as claimed: for an option field, a raw value that is not of the form
\* [<integer>] is sent as the id of an option whose name equals it ignoring
\* case, and is sent unchanged (a miss) when no option's name does.
C6_OptionNameResolves ==
    (pc = "projectFieldUpdate" /\ HasOptions(projectFields[field]) /\ ~IsIndexSyntax(Cur.value)) =>
        LET opts == projectFields[field].settings.options.list
        IN  IF NameMatches(opts, Cur.value) # {}
            THEN Sent.value \in {opts[k].id : k \in NameMatches(opts, Cur.value)}
            ELSE Sent.value = Cur.value

--------------------------------------------------------------------------
(* C7 *)

\* C7: positional index resolution. For a raw value "[n]": on an option field
\* the value sent is options[n].id when 0 <= n < number of options, and the raw
\* value otherwise (a miss); on an iteration field the same holds against the
\* active iterations list only.
C7_IndexResolves ==
    \A n \in -1..MaxIndex :
        (pc = "projectFieldUpdate" /\ Cur.value = BracketInt(n)) =>
            LET s == projectFields[field].settings
            IN  /\ HasOptions(projectFields[field]) =>
                      Sent.value = IF 0 <= n /\ n < Len(s.options.list)
                                   THEN s.options.list[n + 1].id ELSE Cur.value
                /\ HasIterations(projectFields[field]) =>
                      Sent.value = IF 0 <= n /\ n < Len(s.iterations.list)
                                   THEN s.iterations.list[n + 1].id ELSE Cur.value

\* "[0]" on an iteration field with a completed list: the id of iterations[0]
\* is in flight.
C7_Witness ==
    /\ pc = "projectFieldUpdate"
    /\ HasIterations(projectFields[field])
    /\ projectFields[field].settings.completed_iterations.has
    /\ Cur.value = BracketInt(0)
    /\ Sent.value = projectFields[field].settings.iterations.list[1].id

--------------------------------------------------------------------------
(* C8 *)

\* C8 as claimed: for an iteration field and a raw value that is not of the
\* form [<integer>], the value sent is the id of an active iteration whose title
\* equals it ignoring case; when no active title does and a completed
\* iteration's title does, it is the id of such a completed iteration.
C8_TitleResolves ==
    (pc = "projectFieldUpdate" /\ HasIterations(projectFields[field]) /\ ~IsIndexSyntax(Cur.value)) =>
        LET s == projectFields[field].settings
            active == TitleMatches(s.iterations.list, Cur.value)
            completed == TitleMatches(s.completed_iterations.list, Cur.value)
        IN  /\ active # {} => Sent.value \in {s.iterations.list[k].id : k \in active}
            /\ (active = {} /\ completed # {}) =>
                  Sent.value \in {s.completed_iterations.list[k].id : k \in completed}

--------------------------------------------------------------------------
(* C9 *)

\* C9: for a field without settings the value sent is the raw value unchanged,
\* whatever its form, and the outcome reports that value.
C9_ScalarIdentity ==
    /\ (pc = "projectFieldUpdate" /\ projectFields[field].settings.null) =>
          Sent = [fieldId |-> projectFields[field].id, value |-> Cur.value]
    /\ \A k \in 1..Len(outcomes) :
          \A j \in 1..Len(projectFields) :
              (outcomes[k].kind # "FieldNotFound" /\ outcomes[k].fieldId = projectFields[j].id
                 /\ projectFields[j].settings.null)
              => outcomes[k].value = outcomes[k].raw

\* "[0]" is in flight, unchanged, for a field without settings.
C9_Witness ==
    /\ pc = "projectFieldUpdate"
    /\ projectFields[field].settings.null
    /\ Cur.value = BracketInt(0)
    /\ Sent.value = BracketInt(0)

--------------------------------------------------------------------------
(* C10 *)

\* C10 as claimed: the request pairs names and values by position. Every
\* position that has a name and a value is in the request as that name paired
\* with exactly that value, and every entry of the request comes from such a
\* position.
C10_PositionalPairing ==
    (pc # "getInputs" /\ fields.defined) =>
        /\ \A k \in 1..Len(RequestPairs) :
              \E e \in 1..Len(Entries) : Entries[e] = RequestPairs[k]
        /\ \A e \in 1..Len(Entries) :
              \E k \in 1..Len(RequestPairs) : Entries[e] = RequestPairs[k]

--------------------------------------------------------------------------
(* C11 *)

\* The id of the field that entry k of the request is matched to: the first
\* field, in fetch order, whose name is the entry's name; <<>> when there is none
FieldIdOf(k) ==
    LET found == {j \in 1..Len(projectFields) : projectFields[j].name = Entries[k].name}
    IN  IF found = {} THEN <<>>
        ELSE projectFields[CHOOSE j \in found : \A h \in found : j <= h].id

\* The entries of the request that mutation m can be for
EntriesOf(m) == {k \in 1..Len(Entries) : FieldIdOf(k) = mutations[m].fieldId}

\* C11: the schema is fetched at most once, and before any update mutation (a
\* mutation is issued only after the one fetch has returned); at most one
\* mutation is in flight, and only while run() awaits it, every earlier one
\* having its outcome recorded; every mutation is for exactly one entry of the
\* request, an entry the loop has reached, no two mutations are for the same
\* entry (no retry), and the mutations follow the order of the entries.
C11_FetchOnceSequentialNoRetry ==
    /\ fetches <= 1
    /\ mutations # <<>> => (fetches = 1 /\ Fetched)
    /\ Len(mutations) - Reported(outcomes) = IF pc = "projectFieldUpdate" THEN 1 ELSE 0
    /\ \A m \in 1..Len(mutations) :
          /\ Cardinality(EntriesOf(m)) = 1
          /\ \A k \in EntriesOf(m) : k <= i
    /\ \A m, n \in 1..Len(mutations) :
          m < n => \A k \in EntriesOf(m) : \A h \in EntriesOf(n) : k < h

\* A run that ended normally with two mutations issued after one fetch, the
\* first of which failed.
C11_Witness ==
    /\ pc = "done"
    /\ fetches = 1
    /\ Len(mutations) = 2
    /\ Len(outcomes) = 3
    /\ \E k \in 1..Len(outcomes) : outcomes[k].kind = "UpdateFailed"

====
